---- MODULE Spec2Model ----
(***************************************************************************)
(* Model of the slack-daily-screenshot scripts.                            *)
(*                                                                         *)
(* The repository holds four stand-alone variants of one "run and upload"  *)
(* script; `mode` says which one is running:                               *)
(*   "tableV1"  src/index.mjs, lines 1-182   (largest table, no padding)   *)
(*   "table"    src/index.mjs, lines 184-395 (largest table, PAD_AROUND,   *)
(*              viewport resize and re-measure)                            *)
(*   "centered" src/unnamed/part_000          (centered block)             *)
(*   "heading"  src/unnamed/part_001          (heading anchored crop)      *)
(*                                                                         *)
(* Every `await` of run() and of the functions it calls is one step of     *)
(* the state machine; `pc` is the position of run().                       *)
(*                                                                         *)
(* Layout coordinates that the browser reports as floats (boundingBox,     *)
(* getBoundingClientRect) are kept in HALF CSS pixels ("hp"), so that      *)
(* Math.floor, Math.ceil and Math.round really round.  Rectangles the      *)
(* scripts compute with floor/ceil are whole CSS pixels ("px").            *)
(***************************************************************************)
EXTENDS Integers, Sequences, FiniteSets, TLC

VARIABLES
    mode,       \* which script runs
    env,        \* process.env scalars that the script parses
    nUrls,      \* urls.length
    i,          \* index of the URL the for-loop is at (1-based)
    pc,         \* position of run()
    browser,    \* "open" | "closed"
    navContext, \* "open" | "closed": the navigation context of run()
    isoOpen,    \* number of contexts opened by renderTableAndScreenshot and not closed
    isoCreated, \* per URL index: contexts renderTableAndScreenshot created for it
    handle,     \* part_000: "none" | "element" | "jsnull" | "disposed"
    page,       \* the document the navigation page shows (NoPage before goto)
    res,        \* result of the locator for the current URL
    box,        \* first measurement (hp) or Null
    box2,       \* post-resize measurement (hp), Null, or NotMeasured
    clip,       \* rectangle handed to the capture / crop call (px), or Null
    viewport,   \* viewport (px) of the page of the isolated context, Null when there is none
    resized,    \* TRUE once setViewportSize ran for the current URL
    navigated,  \* sequence of URL indices page.goto was called for
    captured,   \* sequence of URL indices whose PNG was produced
    uploads,    \* sequence of URL indices handed to slack.files.uploadV2, successful
    err,        \* "none" or the reason run() rejected with
    exitCode    \* -1 while running, 0 resolved, 1 process.exit(1)

vars == << mode, env, nUrls, i, pc, browser, navContext, isoOpen, isoCreated,
           handle, page, res, box, box2, clip, viewport, resized,
           navigated, captured, uploads, err, exitCode >>

----------------------------------------------------------------------------
(* Bounds of the model *)

MaxUrls == 2

MaxTables == 2

(* Defaults of the environment variables *)

VIEWPORT_W == 1366

VIEWPORT_H == 900

MAX_OUT_W == 3600

MAX_OUT_H == 10000

MIN_CONTAINER_WIDTH == 300

MIN_CONTAINER_HEIGHT == 150

----------------------------------------------------------------------------
(* Arithmetic *)

Null == [null |-> TRUE]

NotMeasured == [notMeasured |-> TRUE]

NoPage == [noPage |-> TRUE]

NoRes == [noRes |-> TRUE]

Max(a, b) == IF a >= b THEN a ELSE b

Min(a, b) == IF a <= b THEN a ELSE b

\* Math.floor of a value given in half pixels, in whole pixels
Floor(v) == v \div 2

\* Math.ceil of a value given in half pixels, in whole pixels
Ceil(v) == -((-v) \div 2)

\* a whole-pixel value in half pixels
Hp(n) == 2 * n

Rect(x, y, w, h) == [x |-> x, y |-> y, width |-> w, height |-> h]

----------------------------------------------------------------------------
(* Largest-table policy: extractTableHTML *)

\* isVisible(el) of extractTableHTML; sizes of source-page tables are whole px
isVisible(t) ==
    /\ ~(t.visibility = "hidden" \/ t.display = "none" \/ t.opacity = 0)
    /\ t.w > 5 /\ t.h > 5

\* [...querySelectorAll('... body table')].filter(isVisible): document order,
\* as indices into the page's tables
RECURSIVE FilterVisible(_, _)
FilterVisible(tables, k) ==
    IF k > Len(tables) THEN << >>
    ELSE IF isVisible(tables[k]) THEN << k >> \o FilterVisible(tables, k + 1)
    ELSE FilterVisible(tables, k + 1)

\* a scan that also replaces the best on an equal area (not the code's)
BetterAreaGE(area, bestArea) == area >= bestArea

\* the comparison of the scan: `if (area > bestArea)`
BetterArea(area, bestArea) == area > bestArea

\* the for-loop over candidates, from position k with the running best
RECURSIVE PickLargest(_, _, _, _, _)
PickLargest(tables, cands, k, best, bestArea) ==
    IF k > Len(cands) THEN best
    ELSE LET area == tables[cands[k]].w * tables[cands[k]].h
         IN  IF BetterArea(area, bestArea)
             THEN PickLargest(tables, cands, k + 1, cands[k], area)
             ELSE PickLargest(tables, cands, k + 1, best, bestArea)

\* extractTableHTML(page): html is the index of the chosen table
extractTableHTML(tables) ==
    LET candidates == FilterVisible(tables, 1)
    IN  IF Len(candidates) = 0
        THEN [ok |-> FALSE, reason |-> "no_table_found", html |-> 0]
        ELSE [ok |-> TRUE, reason |-> "",
              html |-> PickLargest(tables, candidates, 1, candidates[1], 0)]

----------------------------------------------------------------------------
(* Crop arithmetic of renderTableAndScreenshot *)

\* PAD = Math.max(0, parseInt(PAD_AROUND, 10) || 0)
PadOf(e) == Max(0, e.PAD_AROUND)

\* rounding up written as floor + 1 (not the code's)
RoundClampCeilOff(b) ==
    Rect(Max(0, Floor(b.x)), Max(0, Floor(b.y)),
         Max(1, Floor(b.width) + 1), Max(1, Floor(b.height) + 1))

\* first variant: round to integer pixels and clamp (box in hp, result in px)
RoundClamp(b) ==
    Rect(Max(0, Floor(b.x)), Max(0, Floor(b.y)),
         Max(1, Ceil(b.width)), Max(1, Ceil(b.height)))

\* a clip that grows by PAD once instead of on both sides (not the code's)
MkClipOnePad(b, PAD) ==
    Rect(Max(0, Floor(b.x - Hp(PAD))), Max(0, Floor(b.y - Hp(PAD))),
         Max(1, Ceil(b.width + Hp(PAD))), Max(1, Ceil(b.height + Hp(PAD))))

\* a clip whose width and height are not raised to 1 (not the code's)
MkClipNoFloor(b, PAD) ==
    Rect(Max(0, Floor(b.x - Hp(PAD))), Max(0, Floor(b.y - Hp(PAD))),
         Ceil(b.width + 2 * Hp(PAD)), Ceil(b.height + 2 * Hp(PAD)))

\* second variant: expand by PAD on all sides, round, clamp (b in hp, PAD in px)
MkClip(b, PAD) ==
    Rect(Max(0, Floor(b.x - Hp(PAD))), Max(0, Floor(b.y - Hp(PAD))),
         Max(1, Ceil(b.width + 2 * Hp(PAD))), Max(1, Ceil(b.height + 2 * Hp(PAD))))

\* clip2: each field from box2 when boundingBox() gave one, else from box
MkClip2(b, b2, PAD) == MkClip(IF b2 = Null THEN b ELSE b2, PAD)

\* newW / newH handed to setViewportSize
NewViewport(c) ==
    [w |-> Min(Max(c.x + c.width + 2, VIEWPORT_W), MAX_OUT_W),
     h |-> Min(Max(c.y + c.height + 2, VIEWPORT_H), MAX_OUT_H)]

\* rendered extent (hp) of the synthesized document: the viewport, or the table's
\* far edge when the table overflows it
Extent(vp, b) ==
    [w |-> IF b = Null THEN Hp(vp.w) ELSE Max(Hp(vp.w), b.x + b.width),
     h |-> IF b = Null THEN Hp(vp.h) ELSE Max(Hp(vp.h), b.y + b.height)]

----------------------------------------------------------------------------
(* Centered-block policy: getCenteredContainerHandle (part_000) *)

\* isBlock(el)
isBlock(n) == ~n.inline /\ ~n.hidden

\* the size test of bigEnough(el): whole px here
bigEnough(n) == n.w > 200 /\ n.h > 200

\* the while loop: chain[k] is el, chain[k+1] its parentElement; the last node of
\* a chain is HTML, whose parentElement is null
RECURSIVE Climb(_, _)
Climb(chain, k) ==
    IF k < Len(chain) /\ chain[k].tag # "BODY" /\ chain[k].tag # "HTML"
    THEN IF isBlock(chain[k]) /\ bigEnough(chain[k]) THEN k ELSE Climb(chain, k + 1)
    ELSE k

\* the element the evaluated function returns: an element id, or Null
getCenteredContainer(doc) ==
    IF Len(doc.chain) = 0 THEN Null
    ELSE LET k == Climb(doc.chain, 1)
         IN  IF doc.chain[k].tag = "BODY" \/ doc.chain[k].tag = "HTML"
             THEN [id |-> IF doc.wrapper # "none" THEN doc.wrapper ELSE "body"]
             ELSE [id |-> doc.chain[k].id]

----------------------------------------------------------------------------
(* Heading-anchored policy: getCropRect and cropPng (part_001) *)

goodSize(n) ==
    /\ n.right - n.left >= Hp(MIN_CONTAINER_WIDTH)
    /\ n.bottom - n.top >= Hp(MIN_CONTAINER_HEIGHT)

blocky(n) == ~n.inline /\ ~n.hidden

\* first loop: from the heading (chain[1]) upwards, the first sizeable block that
\* matches a preferred selector; 0 when the walk reaches body
RECURSIVE ClimbPreferred(_, _)
ClimbPreferred(chain, k) ==
    IF k > Len(chain) THEN 0
    ELSE IF goodSize(chain[k]) /\ blocky(chain[k]) /\ chain[k].pref THEN k
    ELSE ClimbPreferred(chain, k + 1)

\* fallback loop: from heading.parentElement upwards, the first sizeable block
RECURSIVE ClimbSizable(_, _)
ClimbSizable(chain, k) ==
    IF k > Len(chain) THEN 0
    ELSE IF goodSize(chain[k]) /\ blocky(chain[k]) THEN k
    ELSE ClimbSizable(chain, k + 1)

\* index in chain of the container (1 is the heading itself)
ChooseContainer(chain) ==
    LET p == ClimbPreferred(chain, 1)
        c1 == IF p = 0 THEN 1 ELSE p
    IN  IF c1 = 1
        THEN LET s == ClimbSizable(chain, 2) IN IF s = 0 THEN 1 ELSE s
        ELSE c1

\* a bottom edge that prefers the trailing link (not the code's)
CropBottomAtLink(doc, cb, e) ==
    IF doc.linkTop # -1 THEN Floor(doc.linkTop) + e.PADDING_BOTTOM
    ELSE Ceil(cb.bottom) + e.PADDING_BOTTOM

\* bottom = Math.ceil(cb.bottom) + padBottom
CropBottom(doc, cb, e) == Ceil(cb.bottom) + e.PADDING_BOTTOM

\* getCropRect(page): rect in whole CSS px
getCropRect(doc, e) ==
    IF ~doc.hasHeading
    THEN [ok |-> FALSE, reason |-> "heading_not_found", rect |-> Null, dpr2 |-> 0]
    ELSE LET hb == doc.chain[1]
             cb == doc.chain[ChooseContainer(doc.chain)]
             x == Max(0, Floor(cb.left) - e.PADDING_SIDES)
             y == Max(0, Floor(hb.top) - e.PADDING_TOP)
             right == Ceil(cb.right) + e.PADDING_SIDES
             bottom == CropBottom(doc, cb, e)
         IN  [ok |-> TRUE, reason |-> "",
              rect |-> Rect(x, y, Max(1, right - x), Max(1, bottom - y)),
              dpr2 |-> e.dpr2]

\* Math.round(v * dpr) for a whole number v and dpr = dpr2 / 2
RoundScaled(v, dpr2) == (v * dpr2 + 1) \div 2

\* rectPx of cropPng, in device pixels (left/top named x/y)
cropRectPx(rectCss, dpr2) ==
    Rect(Max(0, RoundScaled(rectCss.x, dpr2)), Max(0, RoundScaled(rectCss.y, dpr2)),
         Max(1, RoundScaled(rectCss.width, dpr2)), Max(1, RoundScaled(rectCss.height, dpr2)))

----------------------------------------------------------------------------
(* Inputs: the documents and measurements the browser may report *)

Modes == {"tableV1", "table", "centered", "heading"}

TableMode == mode \in {"tableV1", "table"}

TableEl(d, v, o, w, h) == [display |-> d, visibility |-> v, opacity |-> o, w |-> w, h |-> h]

\* tables of a source page: two of equal area, a larger one, and hidden ones
TableKinds ==
    { TableEl("table", "visible", 1, 400, 200),
      TableEl("table", "visible", 1, 200, 400),
      TableEl("table", "visible", 1, 600, 300),
      TableEl("none", "visible", 1, 0, 0),
      TableEl("table", "hidden", 1, 800, 800),
      TableEl("table", "visible", 0, 800, 800),
      TableEl("table", "visible", 1, 5, 900) }

TablePages ==
    UNION { [1..n -> TableKinds] : n \in 0..MaxTables }

\* boundingBox() results of the synthesized table, in half pixels:
\*   {x:10, y:10, width:100, height:50}; a box at fractional coordinates;
\*   a 400x200 table centered in 1366; a table wider than MAX_OUT_W
Boxes ==
    { Rect(20, 20, 200, 100),
      Rect(21, 0, 201, 101),
      Rect(966, 0, 800, 400),
      Rect(0, 0, 8000, 600) }

\* process.env as parsed by the running script (dpr2 is DEVICE_SCALE_FACTOR in halves)
Env(pad, pt, ps, pb, d) ==
    [PAD_AROUND |-> pad, PADDING_TOP |-> pt, PADDING_SIDES |-> ps,
     PADDING_BOTTOM |-> pb, dpr2 |-> d]

EnvsOf(m) ==
    IF m = "table" THEN { Env(pad, 8, 8, 12, 4) : pad \in {-8, 0, 8, 96} }
    ELSE IF m = "heading" THEN { Env(96, 8, 8, 12, d) : d \in {2, 3, 4} }
                               \cup { Env(96, 0, 0, 0, 4) }
    ELSE { Env(96, 8, 8, 12, 4) }

----------------------------------------------------------------------------
(* run(): launch *)

Init ==
    /\ mode \in Modes
    /\ env \in EnvsOf(mode)
    /\ nUrls \in 0..MaxUrls
    /\ i = 1
    /\ pc = IF nUrls = 0 THEN "finally" ELSE "goto"
    /\ browser = "open"
    /\ navContext = "open"
    /\ isoOpen = 0
    /\ isoCreated = [u \in 1..nUrls |-> 0]
    /\ handle = "none"
    /\ page = NoPage
    /\ res = NoRes
    /\ box = Null
    /\ box2 = NotMeasured
    /\ clip = Null
    /\ viewport = Null
    /\ resized = FALSE
    /\ navigated = << >>
    /\ captured = << >>
    /\ uploads = << >>
    /\ err = "none"
    /\ exitCode = -1

\* an exception leaves the for-loop: the only handler is the finally of run()
Throw(reason) ==
    /\ err' = reason
    /\ pc' = "finally"

\* end of the loop body: the next URL, or the end of the loop
NextUrl ==
    /\ i' = i + 1
    /\ pc' = IF i + 1 > nUrls THEN "finally" ELSE "goto"

----------------------------------------------------------------------------
(* index.mjs: run() and renderTableAndScreenshot *)

\* page.goto(url) and waitForLoadState(...).catch(() => {})
Goto ==
    /\ TableMode /\ pc = "goto"
    /\ navigated' = Append(navigated, i)
    /\ res' = NoRes /\ box' = Null /\ box2' = NotMeasured /\ clip' = Null
    /\ resized' = FALSE
    /\ \/ /\ \E pg \in TablePages : page' = [tables |-> pg]
          /\ pc' = "extract" /\ err' = err
       \/ /\ page' = NoPage
          /\ Throw("navigation_timeout")
    /\ UNCHANGED << mode, env, nUrls, i, browser, navContext, isoOpen, isoCreated,
                    handle, viewport, captured, uploads, exitCode >>

\* an extraction that goes on to render without testing res.ok (not the code's)
ExtractNoCheck ==
    /\ TableMode /\ pc = "extract"
    /\ res' = extractTableHTML(page.tables)
    /\ pc' = "newContext"
    /\ UNCHANGED << mode, env, nUrls, i, browser, navContext, isoOpen, isoCreated,
                    handle, page, box, box2, clip, viewport, resized,
                    navigated, captured, uploads, err, exitCode >>

\* const res = await extractTableHTML(page); if (!res.ok) throw
Extract ==
    /\ TableMode /\ pc = "extract"
    /\ res' = extractTableHTML(page.tables)
    /\ IF res'.ok
       THEN pc' = "newContext" /\ err' = err
       ELSE Throw(res'.reason)
    /\ UNCHANGED << mode, env, nUrls, i, browser, navContext, isoOpen, isoCreated,
                    handle, page, box, box2, clip, viewport, resized,
                    navigated, captured, uploads, exitCode >>

\* browser.newContext, context.newPage, p.setContent
NewContext ==
    /\ TableMode /\ pc = "newContext"
    /\ isoOpen' = isoOpen + 1
    /\ isoCreated' = [isoCreated EXCEPT ![i] = @ + 1]
    /\ viewport' = [w |-> VIEWPORT_W, h |-> VIEWPORT_H]
    /\ pc' = "waitForSelector"
    /\ UNCHANGED << mode, env, nUrls, i, browser, navContext, handle, page, res,
                    box, box2, clip, resized, navigated, captured,
                    uploads, err, exitCode >>

\* p.waitForSelector('table', { state: 'visible', timeout: 15000 })
WaitForSelector ==
    /\ TableMode /\ pc = "waitForSelector"
    /\ \/ pc' = "measure" /\ err' = err
       \/ Throw("synthesis_timeout")
    /\ UNCHANGED << mode, env, nUrls, i, browser, navContext, isoOpen, isoCreated,
                    handle, page, res, box, box2, clip, viewport, resized,
                    navigated, captured, uploads, exitCode >>

\* p.$eval('table', el => el.getBoundingClientRect()), the fallback for a null
\* boundingBox(): the geometry g, or all zeros when the table has no layout box
\* (which is when boundingBox() is null)
EvalRects(g) == { g, Rect(0, 0, 0, 0) }

\* first variant: boundingBox (or the $eval fallback), then round and clamp in
\* place; the box is the clip
MeasureV1 ==
    /\ mode = "tableV1" /\ pc = "measure"
    /\ \E g \in Boxes : \E bb \in {g, Null} : \E ev \in EvalRects(g) :
         /\ box' = IF bb = Null THEN ev ELSE bb
         /\ clip' = RoundClamp(box')
    /\ pc' = "screenshot"
    /\ UNCHANGED << mode, env, nUrls, i, browser, navContext, isoOpen, isoCreated,
                    handle, page, res, box2, viewport, resized,
                    navigated, captured, uploads, err, exitCode >>

\* second variant: boundingBox (or the $eval fallback), clip, needW/needH
Measure ==
    /\ mode = "table" /\ pc = "measure"
    /\ \E g \in Boxes : \E bb \in {g, Null} : \E ev \in EvalRects(g) :
         /\ box' = IF bb = Null THEN ev ELSE bb
         /\ clip' = MkClip(box', PadOf(env))
    /\ pc' = "setViewportSize"
    /\ UNCHANGED << mode, env, nUrls, i, browser, navContext, isoOpen, isoCreated,
                    handle, page, res, box2, viewport, resized,
                    navigated, captured, uploads, err, exitCode >>

\* p.setViewportSize({ width: newW, height: newH })
SetViewportSize ==
    /\ mode = "table" /\ pc = "setViewportSize"
    /\ \/ /\ viewport' = NewViewport(clip)
          /\ resized' = TRUE
          /\ pc' = "remeasure" /\ err' = err
       \/ /\ UNCHANGED << viewport, resized >>
          /\ Throw("resize_failed")
    /\ UNCHANGED << mode, env, nUrls, i, browser, navContext, isoOpen, isoCreated,
                    handle, page, res, box, box2, clip, navigated,
                    captured, uploads, exitCode >>

\* box2 = await table.boundingBox(); clip2
Remeasure ==
    /\ mode = "table" /\ pc = "remeasure"
    /\ \/ /\ \E b2 \in Boxes \cup {Null} :
               /\ box2' = b2
               /\ clip' = MkClip2(box, b2, PadOf(env))
          /\ pc' = "screenshot" /\ err' = err
       \/ /\ UNCHANGED << box2, clip >>
          /\ Throw("measure_failed")
    /\ UNCHANGED << mode, env, nUrls, i, browser, navContext, isoOpen, isoCreated,
                    handle, page, res, box, viewport, resized,
                    navigated, captured, uploads, exitCode >>

\* the table's geometry at capture time: the post-resize box when there is one
GeomAtShot == IF mode = "table" THEN (IF box2 = NotMeasured THEN Null ELSE box2) ELSE box

\* p.screenshot({ type: 'png', clip })
Screenshot ==
    /\ TableMode /\ pc = "screenshot"
    /\ \/ /\ captured' = Append(captured, i)
          /\ pc' = "close" /\ err' = err
       \/ /\ captured' = captured
          /\ Throw("capture_failed")
    /\ UNCHANGED << mode, env, nUrls, i, browser, navContext, isoOpen, isoCreated,
                    handle, page, res, box, box2, clip, viewport, resized,
                    navigated, uploads, exitCode >>

\* a return without context.close() (not the code's)
CloseContextLeak ==
    /\ TableMode /\ pc = "close"
    /\ pc' = "upload"
    /\ UNCHANGED << mode, env, nUrls, i, browser, navContext, isoOpen, isoCreated,
                    handle, page, res, box, box2, clip, viewport, resized,
                    navigated, captured, uploads, err, exitCode >>

\* await context.close(); return png
CloseContext ==
    /\ TableMode /\ pc = "close"
    /\ isoOpen' = isoOpen - 1
    /\ viewport' = Null
    /\ pc' = "upload"
    /\ UNCHANGED << mode, env, nUrls, i, browser, navContext, isoCreated, handle,
                    page, res, box, box2, clip, resized,
                    navigated, captured, uploads, err, exitCode >>

\* slack.files.uploadV2(...), console.log, next iteration: the iteration's
\* res and png go out of scope
Upload ==
    /\ TableMode /\ pc = "upload"
    /\ \/ /\ uploads' = Append(uploads, i)
          /\ res' = NoRes /\ box' = Null /\ box2' = NotMeasured /\ clip' = Null
          /\ resized' = FALSE
          /\ NextUrl /\ err' = err
       \/ /\ uploads' = uploads /\ i' = i
          /\ UNCHANGED << res, box, box2, clip, resized >>
          /\ Throw("upload_failed")
    /\ UNCHANGED << mode, env, nUrls, browser, navContext, isoOpen, isoCreated,
                    handle, page, viewport, navigated, captured, exitCode >>

\* finally { navContext.close(); browser.close() }, then run().catch: closing the
\* browser closes every context of it; a rejection ends in process.exit(1)
Finally ==
    /\ TableMode /\ pc = "finally"
    /\ navContext' = "closed"
    /\ browser' = "closed"
    /\ isoOpen' = 0
    /\ viewport' = Null
    /\ exitCode' = IF err = "none" THEN 0 ELSE 1
    /\ pc' = "exit"
    /\ UNCHANGED << mode, env, nUrls, i, isoCreated, handle, page, res, box, box2,
                    clip, resized, navigated, captured,
                    uploads, err >>

----------------------------------------------------------------------------
(* part_000: documents, screenshotMainThing and run() *)

Node(id, tag, inline, w, h) ==
    [id |-> id, tag |-> tag, inline |-> inline, hidden |-> FALSE, w |-> w, h |-> h]

\* A document whose only table is tw x th px and lies under the viewport center:
\* `rows` equal rows of `cols` cells, optionally a 40px thead above the center,
\* optionally an inline span in the cell under the center, optionally a <main>
\* around the table ("tight": as high as the table, "full": the whole viewport).
TableDoc(tw, th, rows, cols, thead, span, wrap) ==
    LET bodyH == IF thead THEN th - 40 ELSE th
    IN  [chain |->
             (IF span THEN << Node("span", "SPAN", TRUE, 60, 20) >> ELSE << >>)
             \o << Node("td", "TD", FALSE, tw \div cols, bodyH \div rows),
                   Node("tr", "TR", FALSE, tw, bodyH \div rows),
                   Node("tbody", "TBODY", FALSE, tw, bodyH),
                   Node("table", "TABLE", FALSE, tw, th) >>
             \o (IF wrap = "tight" THEN << Node("main", "MAIN", FALSE, VIEWPORT_W, th) >>
                 ELSE IF wrap = "full"
                      THEN << Node("main", "MAIN", FALSE, VIEWPORT_W, VIEWPORT_H) >>
                      ELSE << >>)
             \o << Node("body", "BODY", FALSE, VIEWPORT_W, VIEWPORT_H),
                   Node("html", "HTML", FALSE, VIEWPORT_W, VIEWPORT_H) >>,
         wrapper |-> IF wrap = "none" THEN "none" ELSE "main",
         tables |-> << [id |-> "table", display |-> "table", visibility |-> "visible",
                        opacity |-> 1, w |-> tw, h |-> th] >>,
         tw |-> tw, th |-> th]

\* A document with no table: the center hits body, or nothing at all
PlainDoc(hit, wrap) ==
    [chain |-> IF hit THEN << Node("body", "BODY", FALSE, VIEWPORT_W, VIEWPORT_H),
                              Node("html", "HTML", FALSE, VIEWPORT_W, VIEWPORT_H) >>
               ELSE << >>,
     wrapper |-> wrap, tables |-> << >>, tw |-> 0, th |-> 0]

CenteredDocs ==
    { TableDoc(sz[1], sz[2], rows, cols, thead, span, wrap) :
        sz \in { <<400, 200>>, <<600, 300>>, <<600, 230>> },
        rows \in {1, 2}, cols \in {1, 2}, thead \in BOOLEAN, span \in BOOLEAN,
        wrap \in {"none", "tight", "full"} }
    \cup { PlainDoc(hit, wrap) : hit \in BOOLEAN, wrap \in {"none", "main"} }

\* page.goto(url) and page.waitForLoadState('networkidle')
CGoto ==
    /\ mode = "centered" /\ pc = "goto"
    /\ navigated' = Append(navigated, i)
    /\ res' = NoRes /\ handle' = "none"
    /\ \/ /\ \E d \in CenteredDocs : page' = d
          /\ pc' = "getHandle" /\ err' = err
       \/ /\ page' = NoPage
          /\ Throw("navigation_timeout")
    /\ UNCHANGED << mode, env, nUrls, i, browser, navContext, isoOpen, isoCreated,
                    box, box2, clip, viewport, resized, captured,
                    uploads, exitCode >>

\* handle = await getCenteredContainerHandle(page); if (!handle) throw: a JSHandle
\* is an object, also when it wraps null, so the test never throws
CGetHandle ==
    /\ mode = "centered" /\ pc = "getHandle"
    /\ res' = getCenteredContainer(page)
    /\ handle' = IF res' = Null THEN "jsnull" ELSE "element"
    /\ pc' = "screenshot"
    /\ UNCHANGED << mode, env, nUrls, i, browser, navContext, isoOpen, isoCreated,
                    page, box, box2, clip, viewport, resized, navigated,
                    captured, uploads, err, exitCode >>

\* png = await handle.screenshot(...); await handle.dispose(); return png.
\* A JSHandle of null has no screenshot method: the call is a TypeError.
CScreenshot ==
    /\ mode = "centered" /\ pc = "screenshot"
    /\ \/ /\ handle = "element"
          /\ captured' = Append(captured, i)
          /\ handle' = "disposed"
          /\ pc' = "upload" /\ err' = err
       \/ /\ handle = "element"
          /\ UNCHANGED << captured, handle >>
          /\ Throw("capture_failed")
       \/ /\ handle = "jsnull"
          /\ UNCHANGED << captured, handle >>
          /\ Throw("screenshot_is_not_a_function")
    /\ UNCHANGED << mode, env, nUrls, i, browser, navContext, isoOpen, isoCreated,
                    page, res, box, box2, clip, viewport, resized, navigated, uploads, exitCode >>

\* slack.files.uploadV2(...), console.log, next iteration
CUpload ==
    /\ mode = "centered" /\ pc = "upload"
    /\ \/ /\ uploads' = Append(uploads, i)
          /\ res' = NoRes
          /\ NextUrl /\ err' = err
       \/ /\ uploads' = uploads /\ i' = i /\ res' = res
          /\ Throw("upload_failed")
    /\ UNCHANGED << mode, env, nUrls, browser, navContext, isoOpen, isoCreated,
                    handle, page, box, box2, clip, viewport, resized,
                    navigated, captured, exitCode >>

\* finally { context.close(); browser.close() }: closing the context releases the
\* handles that live in it
CFinally ==
    /\ mode = "centered" /\ pc = "finally"
    /\ navContext' = "closed"
    /\ browser' = "closed"
    /\ handle' = IF handle \in {"element", "jsnull"} THEN "released" ELSE handle
    /\ exitCode' = IF err = "none" THEN 0 ELSE 1
    /\ pc' = "exit"
    /\ UNCHANGED << mode, env, nUrls, i, isoOpen, isoCreated, page, res, box, box2,
                    clip, viewport, resized, navigated, captured,
                    uploads, err >>

----------------------------------------------------------------------------
(* part_001: documents, captureAndUpload and run() *)

\* a node with its getBoundingClientRect in half pixels
HNode(left, top, right, bottom, hidden, pref) ==
    [left |-> left, top |-> top, right |-> right, bottom |-> bottom,
     inline |-> FALSE, hidden |-> hidden, pref |-> pref]

\* ancestors of the heading, nearest first, body excluded; cbot is the bottom edge
\* (hp) of the content container
Ancestors(kind, top, cbot) ==
    IF kind = "section"
    THEN << HNode(Hp(183), top, Hp(1183), top + Hp(60), FALSE, FALSE),
            HNode(Hp(183), Max(0, top - Hp(20)), Hp(1183), cbot, FALSE, TRUE) >>
    ELSE IF kind = "hiddenSection"
    THEN << HNode(Hp(183), Max(0, top - Hp(20)), Hp(1183), cbot, TRUE, TRUE),
            HNode(Hp(100), 0, Hp(1266), cbot + Hp(40), FALSE, FALSE) >>
    ELSE IF kind = "fullWidthDiv"
    THEN << HNode(0, 0, Hp(VIEWPORT_W), cbot, FALSE, FALSE) >>
    ELSE IF kind = "bigHeading"
    THEN << HNode(Hp(183), 0, Hp(1183), cbot, FALSE, FALSE),
            HNode(Hp(100), 0, Hp(1266), cbot + Hp(40), FALSE, TRUE) >>
    ELSE << >>

\* <hN>PSD Stat of the Day</hN> at `top` (hp), 40px high (kind "bigHeading": 160px
\* high and of class "content"), a table below it inside the container, and a
\* trailing "Stat of the Day List" link at linkTop (hp; -1: no link)
HeadingDoc(top, kind, cbot, linkTop) ==
    [hasHeading |-> TRUE,
     chain |-> << IF kind = "bigHeading"
                  THEN HNode(Hp(183), top, Hp(1183), top + Hp(160), FALSE, TRUE)
                  ELSE HNode(Hp(183), top, Hp(1183), top + Hp(40), FALSE, FALSE) >>
               \o Ancestors(kind, top, cbot),
     linkTop |-> linkTop,
     pageW |-> VIEWPORT_W, pageH |-> VIEWPORT_H]

NoHeadingDoc ==
    [hasHeading |-> FALSE, chain |-> << >>, linkTop |-> -1,
     pageW |-> VIEWPORT_W, pageH |-> VIEWPORT_H]

HeadingDocs ==
    { HeadingDoc(top, kind, cbot, linkTop) :
        top \in {Hp(100), Hp(100) + 1, Hp(4)},
        kind \in {"section", "hiddenSection", "fullWidthDiv", "bigHeading", "none"},
        cbot \in {Hp(600), Hp(600) + 1},
        linkTop \in {-1, Hp(560), Hp(620)} }
    \cup { NoHeadingDoc }

\* size in device pixels of the full-page PNG
FullPageSize(doc, dpr2) ==
    [w |-> RoundScaled(doc.pageW, dpr2), h |-> RoundScaled(doc.pageH, dpr2)]

\* page.goto(url) and page.waitForLoadState('networkidle')
HGoto ==
    /\ mode = "heading" /\ pc = "goto"
    /\ navigated' = Append(navigated, i)
    /\ res' = NoRes /\ clip' = Null
    /\ \/ /\ \E d \in HeadingDocs : page' = d
          /\ pc' = "getCropRect" /\ err' = err
       \/ /\ page' = NoPage
          /\ Throw("navigation_timeout")
    /\ UNCHANGED << mode, env, nUrls, i, browser, navContext, isoOpen, isoCreated,
                    handle, box, box2, viewport, resized, captured,
                    uploads, exitCode >>

\* info = await getCropRect(page); if (!info.ok) throw
HGetCropRect ==
    /\ mode = "heading" /\ pc = "getCropRect"
    /\ res' = getCropRect(page, env)
    /\ IF res'.ok
       THEN pc' = "fullPage" /\ err' = err
       ELSE Throw(res'.reason)
    /\ UNCHANGED << mode, env, nUrls, i, browser, navContext, isoOpen, isoCreated,
                    handle, page, box, box2, clip, viewport, resized,
                    navigated, captured, uploads, exitCode >>

\* fullPng = await page.screenshot({ fullPage: true, type: 'png' })
HFullShot ==
    /\ mode = "heading" /\ pc = "fullPage"
    /\ \/ pc' = "crop" /\ err' = err
       \/ Throw("capture_failed")
    /\ UNCHANGED << mode, env, nUrls, i, browser, navContext, isoOpen, isoCreated,
                    handle, page, res, box, box2, clip, viewport, resized,
                    navigated, captured, uploads, exitCode >>

\* cropped = await cropPng(fullPng, info.rect, info.dpr): sharp's extract rejects
\* an area that is not inside the image
HCropPng ==
    /\ mode = "heading" /\ pc = "crop"
    /\ clip' = cropRectPx(res.rect, res.dpr2)
    /\ IF /\ clip'.x + clip'.width <= FullPageSize(page, res.dpr2).w
          /\ clip'.y + clip'.height <= FullPageSize(page, res.dpr2).h
       THEN /\ captured' = Append(captured, i)
            /\ pc' = "upload" /\ err' = err
       ELSE /\ captured' = captured
            /\ Throw("bad_extract_area")
    /\ UNCHANGED << mode, env, nUrls, i, browser, navContext, isoOpen, isoCreated,
                    handle, page, res, box, box2, viewport, resized, navigated,
                    uploads, exitCode >>

\* slack.files.uploadV2(...), console.log, return to the loop of run()
HUpload ==
    /\ mode = "heading" /\ pc = "upload"
    /\ \/ /\ uploads' = Append(uploads, i)
          /\ res' = NoRes /\ clip' = Null
          /\ NextUrl /\ err' = err
       \/ /\ uploads' = uploads /\ i' = i
          /\ UNCHANGED << res, clip >>
          /\ Throw("upload_failed")
    /\ UNCHANGED << mode, env, nUrls, browser, navContext, isoOpen, isoCreated,
                    handle, page, box, box2, viewport, resized,
                    navigated, captured, exitCode >>

\* finally { context.close(); browser.close() }, then run().catch
HFinally ==
    /\ mode = "heading" /\ pc = "finally"
    /\ navContext' = "closed"
    /\ browser' = "closed"
    /\ exitCode' = IF err = "none" THEN 0 ELSE 1
    /\ pc' = "exit"
    /\ UNCHANGED << mode, env, nUrls, i, isoOpen, isoCreated, handle, page, res,
                    box, box2, clip, viewport, resized, navigated,
                    captured, uploads, err >>

----------------------------------------------------------------------------

Next ==
    \/ Goto \/ Extract \/ NewContext \/ WaitForSelector \/ MeasureV1 \/ Measure
    \/ SetViewportSize \/ Remeasure \/ Screenshot \/ CloseContext \/ Upload
    \/ Finally
    \/ CGoto \/ CGetHandle \/ CScreenshot \/ CUpload \/ CFinally
    \/ HGoto \/ HGetCropRect \/ HFullShot \/ HCropPng \/ HUpload \/ HFinally

Spec == Init /\ [][Next]_vars

----------------------------------------------------------------------------
(* Properties *)

Range(q) == { q[k] : k \in DOMAIN q }

RectHp(r) == Rect(Hp(r.x), Hp(r.y), Hp(r.width), Hp(r.height))

InRender == pc \in {"waitForSelector", "measure", "setViewportSize", "remeasure",
                    "screenshot", "close"}

\* C1: a failure while processing one URL aborts only that URL's pipeline: when
\* run() has ended, every URL of TARGET_URLS has been navigated, and every URL
\* after a failed one has been captured and uploaded.
C1_LaterUrlsStillProcessed ==
    pc = "exit" =>
        /\ \A u \in 1..nUrls : u \in Range(navigated)
        /\ \A u \in 1..nUrls : u > i => (u \in Range(captured) /\ u \in Range(uploads))

\* C2: every browsing context and element handle is released on every exit
\* path: no isolated context is open once renderTableAndScreenshot has been
\* left, no element handle is live once screenshotMainThing has been left, and
\* the navigation context and the browser are closed when run() has ended.
C2_ReleasedOnEveryExitPath ==
    /\ (TableMode /\ ~InRender) => isoOpen = 0
    /\ (mode = "centered" /\ pc # "screenshot") => handle # "element"
    /\ pc = "exit" => (navContext = "closed" /\ browser = "closed")

\* C3: whenever the viewport was resized after the first measurement, the clip
\* handed to screenshot is computed from a measurement taken after the resize
\* (a post-resize box exists and the clip is that box padded), also when the
\* post-resize boundingBox() returned null.
C3_ClipFromPostResizeBox ==
    (mode = "table" /\ pc = "screenshot" /\ resized) =>
        /\ box2 \in Boxes
        /\ clip = MkClip(box2, PadOf(env))

\* C4: when the page has visible tables (display not none, visibility not
\* hidden, opacity not 0, box larger than 5x5), extractTableHTML returns a
\* visible table of maximal area width*height, the first in document order
\* among those of that area.
C4_LargestTableFirstInOrder ==
    (TableMode /\ page # NoPage /\ res # NoRes) =>
        LET T == page.tables
            vis == { k \in DOMAIN T :
                        /\ T[k].display # "none" /\ T[k].visibility # "hidden"
                        /\ T[k].opacity # 0 /\ T[k].w > 5 /\ T[k].h > 5 }
        IN  vis # {} =>
              /\ res.ok
              /\ res.html \in vis
              /\ \A k \in vis :
                    /\ T[k].w * T[k].h <= T[res.html].w * T[res.html].h
                    /\ (T[k].w * T[k].h = T[res.html].w * T[res.html].h) => res.html <= k

\* C4 witness: two visible tables of equal, maximal area; the first was chosen
C4_Witness ==
    /\ mode = "table" /\ page # NoPage /\ res # NoRes /\ res.ok
    /\ Len(page.tables) = 2
    /\ isVisible(page.tables[1]) /\ isVisible(page.tables[2])
    /\ page.tables[1] # page.tables[2]
    /\ page.tables[1].w * page.tables[1].h = page.tables[2].w * page.tables[2].h
    /\ res.html = 1

\* C5: for a page with zero visible tables the locator fails with
\* no_table_found, and for that URL no isolated context is created, no
\* screenshot is taken and nothing is uploaded.
C5_NoTableNoCapture ==
    (TableMode /\ page # NoPage /\ res # NoRes) =>
        LET T == page.tables
            vis == { k \in DOMAIN T :
                        /\ T[k].display # "none" /\ T[k].visibility # "hidden"
                        /\ T[k].opacity # 0 /\ T[k].w > 5 /\ T[k].h > 5 }
        IN  vis = {} =>
              /\ ~res.ok /\ res.reason = "no_table_found"
              /\ err = "no_table_found"
              /\ pc \in {"finally", "exit"}
              /\ isoCreated[i] = 0
              /\ i \notin Range(captured)
              /\ i \notin Range(uploads)

\* C5 witness: a page with tables, none of them visible, ended the run
C5_Witness ==
    /\ mode = "table" /\ pc = "exit" /\ err = "no_table_found"
    /\ page # NoPage /\ Len(page.tables) = 2
    /\ isoCreated[i] = 0 /\ i \notin Range(uploads)

\* the box the final clip was computed from
UsedBox == IF mode = "table" /\ box2 \in Boxes THEN box2 ELSE box

\* C6 as stated: the crop rectangle exactly equals the raw box expanded by P on
\* all four sides with its top-left corner clamped to >= 0 (compared in half
\* pixels, the unit of the raw box; B is the post-resize box).
C6_ExactlyExpandedAndClamped ==
    (mode = "table" /\ pc = "screenshot" /\ box2 \in Boxes) =>
        LET B == UsedBox
            P == Hp(PadOf(env))
        IN  /\ Hp(clip.x) = Max(0, B.x - P)
            /\ Hp(clip.y) = Max(0, B.y - P)
            /\ Hp(clip.width) = B.width + 2 * P
            /\ Hp(clip.height) = B.height + 2 * P

\* C6 amended: the crop rectangle equals the raw box expanded by P on all four
\* sides, its top-left corner clamped to >= 0, then rounded to whole pixels:
\* x and y down, width and height up and at least 1. B = {x:10, y:10,
\* width:100, height:50} with P = 8 yields {x:2, y:2, width:116, height:66}.
C6_ExpandedClampedRounded ==
    (mode = "table" /\ pc = "screenshot") =>
        LET B == UsedBox
            P == Hp(PadOf(env))
            ex == Rect(Max(0, B.x - P), Max(0, B.y - P), B.width + 2 * P, B.height + 2 * P)
        IN  /\ PadOf(env) >= 0
            /\ clip.x = Floor(ex.x) /\ clip.y = Floor(ex.y)
            /\ clip.width = Max(1, Ceil(ex.width))
            /\ clip.height = Max(1, Ceil(ex.height))
            /\ (B = Rect(20, 20, 200, 100) /\ PadOf(env) = 8) => clip = Rect(2, 2, 116, 66)

\* C6 witness: the example of the claim has been computed
C6_Witness ==
    /\ mode = "table" /\ pc = "screenshot"
    /\ UsedBox = Rect(20, 20, 200, 100) /\ PadOf(env) = 8
    /\ clip = Rect(2, 2, 116, 66)

\* the rectangle that the capture or crop call of the current step receives,
\* with the rendered extent, in one unit (half CSS px; device px for cropPng)
Handed ==
    IF TableMode /\ pc = "screenshot"
    THEN [rect |-> RectHp(clip), ext |-> Extent(viewport, GeomAtShot)]
    ELSE IF mode = "heading" /\ pc = "crop"
    THEN [rect |-> cropRectPx(res.rect, res.dpr2), ext |-> FullPageSize(page, res.dpr2)]
    ELSE Null

\* C7: every rectangle handed to a capture or crop call lies inside the
\* rendered extent: x >= 0, y >= 0, x + width <= page width, y + height <= page
\* height.
C7_RectInsideExtent ==
    Handed # Null =>
        /\ Handed.rect.x >= 0 /\ Handed.rect.y >= 0
        /\ Handed.rect.x + Handed.rect.width <= Handed.ext.w
        /\ Handed.rect.y + Handed.rect.height <= Handed.ext.h

HeadingLocated == mode = "heading" /\ page # NoPage /\ res # NoRes /\ res.ok

C9_SameElementAsTablePolicy ==
    (mode = "centered" /\ pc = "screenshot" /\ page.tw = 400 /\ page.th = 200) =>
        LET t == extractTableHTML(page.tables)
        IN  /\ t.ok
            /\ res # Null
            /\ res.id = page.tables[t.html].id

\* C10: the clamp-and-round step applied to a rectangle that is already its
\* output returns the same rectangle.
C10_ClampIdempotent ==
    /\ (mode = "tableV1" /\ pc = "screenshot") => RoundClamp(RectHp(clip)) = clip
    /\ (mode = "table" /\ pc = "screenshot") => MkClip(RectHp(clip), 0) = clip

\* C10 witness: a box at fractional coordinates was rounded and clamped
C10_Witness ==
    /\ mode = "tableV1" /\ pc = "screenshot"
    /\ box = Rect(21, 0, 201, 101)
    /\ clip = Rect(10, 0, 101, 51)

\* C11: the centered-block policy always succeeds: once the locator has run,
\* it has yielded an element (a sizeable block ancestor, a content wrapper or
\* body), also when nothing lies under the viewport center, and
\* screenshotMainThing does not end in the "could not locate" failure nor in a
\* capture on a handle of null.
C11_CenteredAlwaysYieldsElement ==
    (mode = "centered" /\ page # NoPage /\ res # NoRes) =>
        /\ res # Null
        /\ handle # "jsnull"
        /\ err \notin {"could_not_locate", "screenshot_is_not_a_function"}

\* the final rectangle of renderTableAndScreenshot has been computed
FinalClipComputed ==
    /\ TableMode /\ clip # Null
    /\ pc \in {"screenshot", "close", "upload", "finally", "exit"}
    /\ mode = "table" => box2 # NotMeasured

\* the padded width or height of the measured box rounds to less than 1 px
RoundsBelowOne ==
    LET P == IF mode = "table" THEN Hp(PadOf(env)) ELSE 0
    IN  \/ Ceil(UsedBox.width + 2 * P) < 1
        \/ Ceil(UsedBox.height + 2 * P) < 1

\* C12 as stated: when the width or height of the final rectangle rounds to
\* less than 1 px the crop computation fails with RegionTooSmall and no capture
\* is taken for that rectangle.
C12_TooSmallRegionFails ==
    (FinalClipComputed /\ RoundsBelowOne) =>
        /\ err = "RegionTooSmall"
        /\ pc \in {"finally", "exit"}
        /\ i \notin Range(captured)

\* C12 amended: the crop computation never fails with RegionTooSmall; a width
\* or height that rounds to less than 1 px is raised to 1 px, every final
\* rectangle is at least 1x1, and the capture is taken with it.
C12_TooSmallRegionRaisedToOne ==
    FinalClipComputed =>
        /\ err # "RegionTooSmall"
        /\ clip.width >= 1 /\ clip.height >= 1
        /\ RoundsBelowOne => (clip.width = 1 \/ clip.height = 1)
        /\ pc \in {"close", "upload"} => i \in Range(captured)

\* C12 witness: a box of zero size was raised to 1x1 and captured
C12_Witness ==
    /\ FinalClipComputed /\ RoundsBelowOne
    /\ pc = "close"
    /\ clip = Rect(0, 0, 1, 1)
    /\ i \in Range(captured)

\* C13: run() serializes the URLs: URLs are navigated once each and in input
\* order, the navigation of a URL starts only when every earlier URL has been
\* captured and uploaded and no isolated context is open, at most one isolated
\* context is open at any time, and uploads occur once each in input order.
C13_UrlsSerialized ==
    /\ isoOpen <= 1
    /\ \A k \in DOMAIN navigated : navigated[k] = k
    /\ \A k \in DOMAIN uploads : uploads[k] = k
    /\ \A k \in DOMAIN captured : captured[k] = k
    /\ \A u \in Range(navigated) : \A v \in 1..(u - 1) :
          v \in Range(captured) /\ v \in Range(uploads)
    /\ Len(uploads) <= Len(captured) /\ Len(captured) <= Len(navigated)
    /\ Len(navigated) <= Len(uploads) + 1
    /\ pc = "goto" => (isoOpen = 0 /\ Len(uploads) = i - 1 /\ Len(navigated) = i - 1)
    /\ \A u \in 1..nUrls : isoCreated[u] <= 1

\* C13 witness: two URLs went through the table pipeline one after the other
C13_Witness ==
    /\ mode = "table" /\ pc = "exit" /\ err = "none"
    /\ nUrls >= 2
    /\ navigated = << 1, 2 >> \o [k \in 1..(nUrls - 2) |-> k + 2]
    /\ uploads = navigated
    /\ isoCreated[1] = 1 /\ isoCreated[2] = 1
    /\ isoOpen = 0

====
